---- MODULE Spec2Model ----
(***************************************************************************)
(* Model of streamlit_app.py, the hospital revenue dashboard.              *)
(*                                                                         *)
(* One script run (a "render pass") is one action: Streamlit re-executes   *)
(* the script top to bottom on every interaction.  What survives between   *)
(* passes is st.session_state.df, the st.cache_data store of load_data and *)
(* the widget values.                                                      *)
(*                                                                         *)
(* A table (DataFrame) is [cols |-> set of column names, rows |-> sequence *)
(* of rows]; a row is a function from the table's columns to cells; a cell *)
(* is <<>> (NaN / NaT / missing) or <<v>>.  An optional value (None, an    *)
(* unassigned variable) is written the same way.  A text whose characters  *)
(* matter (the raw revenue) is a sequence of one-character strings.        *)
(***************************************************************************)
EXTENDS Integers, Sequences, FiniteSets, TLC

VARIABLES
    content,          \* the CSV files the user can put in the uploader
    local,            \* the local fallback file 'unique_data.csv'
    uploaded_file,    \* value of st.sidebar.file_uploader: None or a file name
    session_df,       \* st.session_state.df: <<>> (None) or <<table>>
    cache,            \* st.cache_data store of load_data: key -> <<>> or <<result>>
    parses,           \* key -> how many times load_data's body ran for it
    first,            \* key -> the result of the first run of the body for it
    cache_hit,        \* the last pass got load_data's result from the cache
    rerun_pending,    \* st.rerun() was called and the re-run has not started
    reset_offered,    \* the reset button is on the page the user sees
    after_reset,      \* the last pass was the re-run a reset triggered
    prev_session,     \* the session table the last reset discarded
    loaded,           \* what load_data returned in the last pass (<<>>: not called)
    df,               \* the script's df at line 112 (<<>>: not reached)
    df_source,        \* where that df came from: "load_data" or "session"
    page,             \* how the last pass ended
    selected_year,    \* <<>> (unassigned) or <<year>>
    selected_service, \* <<>> (unassigned) or <<group>>
    df_filtered,      \* <<>> (unassigned) or <<table>>
    rendered          \* the KPI cards, charts and tables the last pass drew

vars == <<content, local, uploaded_file, session_df, cache, parses, first, cache_hit,
          rerun_pending, reset_offered, after_reset, prev_session, loaded, df,
          df_source, page, selected_year, selected_service, df_filtered, rendered>>

-----------------------------------------------------------------------------
(* Bounds of the model *)

\* longest raw revenue text drawn as an input
MaxLen == 3
\* most rows of a table drawn as an input
MaxRows == 2
\* cap on the number of runs of load_data's body per key
MaxParses == 2

-----------------------------------------------------------------------------
(* Values *)

None == "None"
Missing == <<>>
Some(v) == <<v>>

\* the "all groups" entry of the service-group selector (diacritics dropped)
ALL == "Tat ca"

ExpectedColumns ==
    {"nam", "thang", "tongdoanhthu", "sotiepnhan", "tennhomdichvu",
     "tendichvu", "loai_dich_vu", "ngay_tiep_nhan"}

EmptyDataFrame == [cols |-> {}, rows |-> <<>>]

\* DataFrame.empty: some axis has length 0
IsEmpty(d) == d.cols = {} \/ Len(d.rows) = 0

Digits == {"0", "1", "5"}
Chars == Digits \cup {",", " ", "x"}

DigitValue(c) == CASE c = "0" -> 0 [] c = "1" -> 1 [] c = "5" -> 5

\* str.replace(old, ''): every occurrence of the character removed
StrReplace(t, old) == SelectSeq(t, LAMBDA c : c # old)

\* Series.astype(str) on one cell: NaN becomes the text 'nan'
AsTypeStr(cell) == IF cell = Missing THEN <<"n", "a", "n">> ELSE cell[1]

IsDigitText(t) == Len(t) > 0 /\ \A i \in 1..Len(t) : t[i] \in Digits

RECURSIVE ParseDigits(_, _)
ParseDigits(t, acc) ==
    IF t = <<>> THEN acc ELSE ParseDigits(Tail(t), 10 * acc + DigitValue(Head(t)))

\* pd.to_numeric(errors='coerce') on one text: the number, or NaN
ToNumeric(t) == IF IsDigitText(t) THEN Some(ParseDigits(t, 0)) ELSE Missing

\* pd.to_datetime(errors='coerce') on one cell: the date, or NaT
ToDatetime(cell) ==
    IF cell = Missing THEN Missing
    ELSE CASE cell[1] = "2024-01-05" -> Some(<<2024, 1, 5>>)
           [] cell[1] = "2023-12-31" -> Some(<<2023, 12, 31>>)
           [] OTHER -> Missing

\* df[name] = values: the column is added, or overwritten when it exists
WithColumn(d, name, values) ==
    [cols |-> d.cols \cup {name},
     rows |-> [i \in 1..Len(d.rows) |->
                 [c \in d.cols \cup {name} |->
                     IF c = name THEN values[i] ELSE d.rows[i][c]]]]

\* RevenueOf without .str.replace(' ', '')
RevenueOf_KeepsSpaces(cell) ==
    ToNumeric(StrReplace(AsTypeStr(cell), ","))

\* lines 64-67 on one cell of 'tongdoanhthu'
RevenueOf(cell) ==
    ToNumeric(StrReplace(StrReplace(AsTypeStr(cell), ","), " "))

\* lines 59-69: the two derived columns, each when its source column exists
CleanColumns(d) ==
    LET d1 == IF "ngay_tiep_nhan" \in d.cols
              THEN WithColumn(d, "date_clean",
                       [i \in 1..Len(d.rows) |->
                           ToDatetime(d.rows[i]["ngay_tiep_nhan"])])
              ELSE d
    IN  IF "tongdoanhthu" \in d1.cols
        THEN WithColumn(d1, "revenue",
                 [i \in 1..Len(d1.rows) |->
                     RevenueOf(d1.rows[i]["tongdoanhthu"])])
        ELSE d1

\* process_data without the early return of lines 55-56
process_data_NoEarlyReturn(d) == CleanColumns(d)

process_data(d) ==
    IF IsEmpty(d) THEN d
    ELSE CleanColumns(d)

-----------------------------------------------------------------------------
(* load_data *)

\* a file: a CSV pandas can parse, bytes it cannot parse, or no file
Csv(t) == [kind |-> "csv", table |-> Some(t)]
Garbage == [kind |-> "garbage", table |-> Missing]
Absent == [kind |-> "absent", table |-> Missing]

Result(d, msg, raised) == [df |-> d, msg |-> msg, raised |-> raised]

\* load_data reading the local file after a failed read of the upload
load_data_FallsThrough(uf) ==
    CASE uf # None /\ content[uf].kind = "csv" ->
            Result(process_data(content[uf].table[1]), "success_uploaded", FALSE)
      [] local.kind = "csv" ->
            Result(process_data(local.table[1]), "info_local", FALSE)
      [] local.kind = "absent" ->
            Result(EmptyDataFrame, "warning_please_upload", FALSE)
      [] OTHER ->
            Result(EmptyDataFrame, "error_read_local", FALSE)

\* the body of load_data
load_data(uf) ==
    IF uf # None
    THEN IF content[uf].kind = "csv"
         THEN Result(process_data(content[uf].table[1]), "success_uploaded", FALSE)
         ELSE Result(EmptyDataFrame, "error_read", FALSE)
    ELSE CASE local.kind = "csv" ->
                Result(process_data(local.table[1]), "info_local", FALSE)
           [] local.kind = "absent" ->
                Result(EmptyDataFrame, "warning_please_upload", FALSE)
           [] OTHER ->
                Result(EmptyDataFrame, "error_read_local", FALSE)

\* load_data without @st.cache_data: nothing is ever found
CacheGet_Undecorated(key) == Missing

\* st.cache_data: the stored result for this argument, if any
CacheGet(key) == cache[key]

-----------------------------------------------------------------------------
(* The filter and presentation stages *)

\* df[col].dropna().unique()
UniqueValues(d, col) ==
    {d.rows[i][col][1] : i \in {j \in 1..Len(d.rows) : d.rows[j][col] # Missing}}

RECURSIVE SortedSeq(_)
SortedSeq(S) ==
    IF S = {} THEN <<>>
    ELSE LET m == CHOOSE x \in S : \A z \in S : x <= z
         IN  <<m>> \o SortedSeq(S \ {m})

year_list(d) == SortedSeq(UniqueValues(d, "nam"))

\* the entries of the service-group selector (their order is not modelled)
service_groups(d) == {ALL} \cup UniqueValues(d, "tennhomdichvu")

\* the check of lines 200-202 made on another column
MissingYearColumn_WrongName(d) == "thang" \notin d.cols

\* the 'nam' check of lines 200-202
MissingYearColumn(d) == "nam" \notin d.cols

\* line 228
FilterYear(d, y) ==
    [cols |-> d.cols, rows |-> SelectSeq(d.rows, LAMBDA r : r["nam"] = Some(y))]

\* line 231 comparing the service name instead of the group
FilterService_WrongColumn(d, s) ==
    [cols |-> d.cols,
     rows |-> SelectSeq(d.rows,
                 LAMBDA r : "tendichvu" \in d.cols /\ r["tendichvu"] = Some(s))]

\* line 231
FilterService(d, s) ==
    [cols |-> d.cols,
     rows |-> SelectSeq(d.rows, LAMBDA r : r["tennhomdichvu"] = Some(s))]

\* line 230: the group filter applies
GroupFilterApplies(d, s) == s # ALL /\ "tennhomdichvu" \in d.cols

\* lines 233-236 left out
EmptyResult_Unchecked(d) == FALSE

\* line 233
EmptyResult(d) == IsEmpty(d)

\* df[cols].dropna() is not empty
HasComplete(d, cs) ==
    \E i \in 1..Len(d.rows) : \A c \in cs : d.rows[i][c] # Missing

\* lines 239-414: what the dashboard draws for a non-empty filtered table
Dashboard(d, show) ==
    LET has(c) == c \in d.cols
    IN  {"header"}
        \cup (IF has("revenue") THEN {"kpi_total_revenue", "kpi_average_revenue"} ELSE {})
        \cup (IF has("sotiepnhan") THEN {"kpi_total_visits"} ELSE {})
        \cup (IF has("tennhomdichvu") /\ has("revenue") THEN {"kpi_top_group"} ELSE {})
        \cup (IF has("thang") /\ has("revenue") /\ HasComplete(d, {"thang", "revenue"})
              THEN {"chart_line"} ELSE {})
        \cup (IF has("tennhomdichvu") /\ has("revenue")
                 /\ HasComplete(d, {"tennhomdichvu", "revenue"})
              THEN {"chart_bar"} ELSE {})
        \cup (IF has("tendichvu") /\ HasComplete(d, {"tendichvu"})
              THEN {"chart_pie"} ELSE {})
        \cup (IF has("loai_dich_vu") /\ has("tennhomdichvu") /\ has("revenue")
                 /\ HasComplete(d, {"loai_dich_vu", "tennhomdichvu", "revenue"})
              THEN {"chart_sunburst"} ELSE {})
        \cup (IF show THEN {"data_table"} ELSE {})

View(pg, y, s, f, r) ==
    [page |-> pg, selected_year |-> y, selected_service |-> s,
     df_filtered |-> f, rendered |-> r]

\* the selectors are reached: lines 112, 200 and 205 did not stop the pass
SelectorsReached(d) ==
    ~IsEmpty(d) /\ "nam" \in d.cols /\ UniqueValues(d, "nam") # {}

\* what the user can pick in the year selector
YearChoices(d) == IF SelectorsReached(d) THEN UniqueValues(d, "nam") ELSE {0}

\* what the user can pick in the service-group selector (lines 217-222)
ServiceChoices(d) ==
    IF SelectorsReached(d) /\ "tennhomdichvu" \in d.cols
    THEN service_groups(d) ELSE {""}

\* lines 112-423 on table d, with the user's picks y, s and show
Render(d, y, s, show) ==
    IF IsEmpty(d)
    THEN View("welcome", Missing, Missing, Missing, {"sample_table"})
    ELSE IF MissingYearColumn(d)
    THEN View("error_no_year_column", Missing, Missing, Missing, {})
    ELSE IF "nam" \notin d.cols
    THEN View("exception", Missing, Missing, Missing, {})      \* KeyError, line 204
    ELSE IF Len(year_list(d)) = 0
    THEN View("error_no_year", Missing, Missing, Missing, {})
    ELSE LET sel == IF "tennhomdichvu" \in d.cols THEN Some(s) ELSE Missing
             f1 == FilterYear(d, y)
         IN  IF sel = Missing
             THEN View("exception", Some(y), sel, Some(f1), {}) \* NameError, line 230
             ELSE LET f2 == IF GroupFilterApplies(d, s)
                            THEN FilterService(f1, s) ELSE f1
                  IN  IF EmptyResult(f2)
                      THEN View("warning_empty", Some(y), sel, Some(f2), {})
                      ELSE View("dashboard", Some(y), sel, Some(f2),
                                Dashboard(f2, show))

-----------------------------------------------------------------------------
(* One run of the script *)

Keys == DOMAIN cache

\* line 104 without 'and uploaded_file is not None'
StoreInSession_AnySource(d, uf) == ~IsEmpty(d)

\* line 104: the table is stored in the session
StoreInSession(d, uf) == ~IsEmpty(d) /\ uf # None

\* line 108: the session's table is used
UseSession(sess, uf) == sess # Missing /\ uf = None

\* line 49 left out: the button only re-runs the script
ResetValue_Kept == session_df

\* line 49: what the reset button leaves in st.session_state.df
ResetValue == Missing

\* lines 35-423 with the uploader holding uf; click: the reset button was pressed
RunScript(uf, click, isRerun) ==
    /\ uploaded_file' = uf
    /\ UNCHANGED <<content, local>>
    /\ IF session_df # Missing /\ click
       THEN \* lines 47-50
            /\ session_df' = ResetValue
            /\ prev_session' = session_df
            /\ rerun_pending' = TRUE
            /\ reset_offered' = FALSE
            /\ after_reset' = FALSE
            /\ page' = "rerun"
            /\ loaded' = Missing
            /\ df' = Missing
            /\ df_source' = "none"
            /\ selected_year' = Missing
            /\ selected_service' = Missing
            /\ df_filtered' = Missing
            /\ rendered' = {}
            /\ UNCHANGED <<cache, parses, first, cache_hit>>
       ELSE \* line 101: the cached result, or the body's
            \E res \in {IF CacheGet(uf) # Missing THEN CacheGet(uf)[1]
                        ELSE load_data(uf)} :
            LET hit == CacheGet(uf) # Missing
                sess == IF StoreInSession(res.df, uf) THEN Some(res.df) ELSE session_df
                use == UseSession(sess, uf)
            IN  /\ hit \/ parses[uf] < MaxParses
                /\ cache' = IF hit \/ res.raised THEN cache
                            ELSE [cache EXCEPT ![uf] = Some(res)]
                /\ parses' = IF hit THEN parses
                             ELSE [parses EXCEPT ![uf] = @ + 1]
                /\ first' = IF hit \/ first[uf] # Missing THEN first
                            ELSE [first EXCEPT ![uf] = Some(res)]
                /\ cache_hit' = hit
                /\ rerun_pending' = FALSE
                /\ after_reset' = isRerun
                /\ prev_session' = IF isRerun THEN prev_session ELSE Missing
                /\ reset_offered' = (session_df # Missing)
                /\ loaded' = Some(res)
                /\ IF res.raised
                   THEN /\ session_df' = session_df
                        /\ df' = Missing
                        /\ df_source' = "none"
                        /\ page' = "exception"
                        /\ selected_year' = Missing
                        /\ selected_service' = Missing
                        /\ df_filtered' = Missing
                        /\ rendered' = {}
                   ELSE \E d \in {IF use THEN sess[1] ELSE res.df} :
                        /\ session_df' = sess
                        /\ df' = Some(d)
                        /\ df_source' = IF use THEN "session" ELSE "load_data"
                        /\ \E y \in YearChoices(d), s \in ServiceChoices(d),
                              show \in BOOLEAN :
                              \E v \in {Render(d, y, s, show)} :
                                  /\ page' = v.page
                                  /\ selected_year' = v.selected_year
                                  /\ selected_service' = v.selected_service
                                  /\ df_filtered' = v.df_filtered
                                  /\ rendered' = v.rendered

-----------------------------------------------------------------------------
(* The user's interactions *)

FileNames == DOMAIN content

\* the user puts a file in the uploader
UploadFile ==
    /\ ~rerun_pending
    /\ \E f \in FileNames : f # uploaded_file /\ RunScript(f, FALSE, FALSE)

\* the user removes the file from the uploader
RemoveFile ==
    /\ ~rerun_pending
    /\ uploaded_file # None
    /\ RunScript(None, FALSE, FALSE)

\* the user changes a selector, the checkbox or the slider
Interact ==
    /\ ~rerun_pending
    /\ RunScript(uploaded_file, FALSE, FALSE)

\* the user presses the reset button
PressReset ==
    /\ ~rerun_pending
    /\ reset_offered
    /\ RunScript(uploaded_file, TRUE, FALSE)

\* the re-run st.rerun() asked for
Rerun ==
    /\ rerun_pending
    /\ RunScript(uploaded_file, FALSE, TRUE)

-----------------------------------------------------------------------------
(* Input tables *)

Extend(r, c, v) == [k \in (DOMAIN r) \cup {c} |-> IF k = c THEN v ELSE r[k]]

RECURSIVE TextsUpTo(_)
TextsUpTo(n) ==
    IF n = 0 THEN {<<>>}
    ELSE LET S == TextsUpTo(n - 1)
         IN  S \cup {Append(t, c) : t \in {u \in S : Len(u) = n - 1}, c \in Chars}

\* the cells a column of a parsed CSV can hold; texts: the raw revenue texts
\* drawn, dates: the raw date texts drawn (an empty CSV field is read as NaN)
CellValues(c, texts, dates) ==
    CASE c = "nam" -> {Some(2023), Some(2024), Missing}
      [] c = "tennhomdichvu" -> {Some("Xet nghiem"), Some(ALL), Missing}
      [] c = "tongdoanhthu" -> {IF t = <<>> THEN Missing ELSE Some(t) : t \in texts}
      [] c = "ngay_tiep_nhan" -> {IF t = "" THEN Missing ELSE Some(t) : t \in dates}
      [] c = "thang" -> {Some(1)}
      [] c = "sotiepnhan" -> {Some(100)}
      [] c = "tendichvu" -> {Some("X-quang nguc")}
      [] c = "loai_dich_vu" -> {Some("Noi tru")}

RECURSIVE RowsOver(_, _, _)
RowsOver(C, texts, dates) ==
    IF C = {} THEN {<<>>}
    ELSE LET c == CHOOSE x \in C : TRUE
         IN  {Extend(r, c, v) : r \in RowsOver(C \ {c}, texts, dates),
                                v \in CellValues(c, texts, dates)}

RECURSIVE SeqsUpTo(_, _)
SeqsUpTo(S, n) ==
    IF n = 0 THEN {<<>>}
    ELSE LET P == SeqsUpTo(S, n - 1)
         IN  P \cup {Append(q, x) : q \in {u \in P : Len(u) = n - 1}, x \in S}

\* the tables with columns C and at most n rows
TablesOver(C, texts, dates, n) ==
    {[cols |-> C, rows |-> q] : q \in SeqsUpTo(RowsOver(C, texts, dates), n)}

-----------------------------------------------------------------------------
(* The session *)

FullRow(y, g, t) ==
    [c \in ExpectedColumns |->
        CASE c = "nam" -> Some(y)
          [] c = "tennhomdichvu" -> Some(g)
          [] c = "tongdoanhthu" -> Some(t)
          [] c = "ngay_tiep_nhan" -> Some("2024-01-05")
          [] c = "thang" -> Some(1)
          [] c = "sotiepnhan" -> Some(100)
          [] c = "tendichvu" -> Some("X-quang nguc")
          [] c = "loai_dich_vu" -> Some("Noi tru")]

DataTable ==
    [cols |-> ExpectedColumns,
     rows |-> <<FullRow(2023, "Xet nghiem", <<"1", ",", "5">>),
                FullRow(2024, "Chan doan hinh anh", <<"5", "0">>)>>]

NoYearTable ==
    [cols |-> {"thang", "tongdoanhthu"},
     rows |-> <<[c \in {"thang", "tongdoanhthu"} |->
                   IF c = "thang" THEN Some(1) ELSE Some(<<"1", "0">>)]>>]

HeaderOnlyTable == [cols |-> ExpectedColumns, rows |-> <<>>]

LocalTable ==
    [cols |-> ExpectedColumns,
     rows |-> <<FullRow(2023, "Xet nghiem", <<"5">>)>>]

Catalog ==
    [f \in {"data.csv", "no_year.csv", "header_only.csv", "broken.csv"} |->
        CASE f = "data.csv" -> Csv(DataTable)
          [] f = "no_year.csv" -> Csv(NoYearTable)
          [] f = "header_only.csv" -> Csv(HeaderOnlyTable)
          [] f = "broken.csv" -> Garbage]

\* the state of a fresh session before its first pass, given the files
Fresh(files, loc, uf) ==
    /\ content = files
    /\ local = loc
    /\ uploaded_file = uf
    /\ session_df = Missing
    /\ cache = [k \in (DOMAIN files) \cup {None} |-> Missing]
    /\ parses = [k \in (DOMAIN files) \cup {None} |-> 0]
    /\ first = [k \in (DOMAIN files) \cup {None} |-> Missing]
    /\ cache_hit = FALSE
    /\ rerun_pending = FALSE
    /\ reset_offered = FALSE
    /\ after_reset = FALSE
    /\ prev_session = Missing
    /\ loaded = Missing
    /\ df = Missing
    /\ df_source = "none"
    /\ page = "none"
    /\ selected_year = Missing
    /\ selected_service = Missing
    /\ df_filtered = Missing
    /\ rendered = {}

Init ==
    \E loc \in {Absent, Garbage, Csv(LocalTable)} : Fresh(Catalog, loc, None)

Next == UploadFile \/ RemoveFile \/ Interact \/ PressReset \/ Rerun

Spec == Init /\ [][Next]_vars

-----------------------------------------------------------------------------
(* One uploaded CSV drawn from a bounded set of tables *)

\* the columns the filter stage reads, and the ones only the dashboard reads
FilterColumns == {"nam", "tennhomdichvu", "tongdoanhthu"}
OtherColumns == ExpectedColumns \ FilterColumns

\* the column sets drawn: any of the filter stage's columns missing, and of
\* the others none, one or all missing
ColumnSets ==
    {F \cup O : F \in SUBSET FilterColumns,
                O \in {OtherColumns, {}} \cup {OtherColumns \ {c} : c \in OtherColumns}}
    \ {{}}

RenderTables ==
    UNION {TablesOver(C, {<<"1", ",", "5">>}, {"2024-01-05"}, MaxRows) : C \in ColumnSets}

\* a session with one uploadable file and no local fallback file
OneFile(t) == Fresh([f \in {"upload.csv"} |-> Csv(t)], Absent, None)

InitRender == \E t \in RenderTables : OneFile(t)

NextInput == UploadFile \/ Interact

SpecRender == InitRender /\ [][NextInput]_vars

\* the tables process_data is applied to: at most one row, every raw revenue
\* text of up to MaxLen characters
CleanTables ==
    UNION {TablesOver(C, TextsUpTo(MaxLen), {"2024-01-05", "32/13/2024", ""}, 1) :
              C \in (SUBSET {"nam", "tongdoanhthu", "ngay_tiep_nhan"}) \ {{}}}

InitClean == \E t \in CleanTables : OneFile(t)

SpecClean == InitClean /\ [][NextInput]_vars

-----------------------------------------------------------------------------
(* Properties *)

\* the last pass called load_data on an uploaded CSV that pandas parsed
LoadedUpload ==
    /\ loaded # Missing
    /\ uploaded_file # None
    /\ content[uploaded_file].kind = "csv"

\* that CSV as read by pd.read_csv, and what load_data returned for it
InputTable == content[uploaded_file].table[1]
OutputTable == loaded[1].df

Separators == {",", " "}

\* decimal digits with ',' and ' ' between, before or after them
IsSeparatedNumber(t) ==
    /\ \A i \in 1..Len(t) : t[i] \in Digits \cup Separators
    /\ \E i \in 1..Len(t) : t[i] \in Digits

\* some character is neither a digit nor a separator, or there is no digit
NotNumericOnceStripped(t) == ~IsSeparatedNumber(t)

RECURSIVE Pow10(_)
Pow10(n) == IF n = 0 THEN 1 ELSE 10 * Pow10(n - 1)

RECURSIVE SumOver(_, _)
SumOver(f, S) ==
    IF S = {} THEN 0
    ELSE LET i == CHOOSE x \in S : TRUE IN f[i] + SumOver(f, S \ {i})

\* the integer a text denotes once everything but its digits is dropped
Denoted(t) ==
    LET ds == SelectSeq(t, LAMBDA c : c \in Digits)
        n == Len(ds)
    IN  SumOver([i \in 1..n |-> DigitValue(ds[i]) * Pow10(n - i)], 1..n)

\* C5: every raw revenue text made of digits with ',' and ' ' gets as revenue
\* the integer its digits denote; every text that is not numeric once ',' and
\* ' ' are removed gets a missing revenue; and reading the file raises nothing
\* and reports no error.
C5_RevenueParsed ==
    (LoadedUpload /\ "tongdoanhthu" \in InputTable.cols) =>
        /\ ~loaded[1].raised
        /\ loaded[1].msg = "success_uploaded"
        /\ Len(OutputTable.rows) = Len(InputTable.rows)
        /\ \A i \in 1..Len(InputTable.rows) :
              LET raw == InputTable.rows[i]["tongdoanhthu"]
                  rev == OutputTable.rows[i]["revenue"]
              IN  /\ (raw # Missing /\ IsSeparatedNumber(raw[1]))
                        => rev = Some(Denoted(raw[1]))
                  /\ (raw # Missing /\ NotNumericOnceStripped(raw[1]))
                        => rev = Missing

\* a text with a thousands separator was parsed to its integer
C5_Witness ==
    /\ LoadedUpload
    /\ "tongdoanhthu" \in InputTable.cols
    /\ Len(InputTable.rows) = 1
    /\ InputTable.rows[1]["tongdoanhthu"] = Some(<<"1", ",", "5">>)
    /\ OutputTable.rows[1]["revenue"] = Some(15)

\* the columns of the input keep their cells, in the same rows
PassedThrough(inp, out) ==
    /\ inp.cols \subseteq out.cols
    /\ out.cols \subseteq inp.cols \cup {"revenue", "date_clean"}
    /\ Len(out.rows) = Len(inp.rows)
    /\ \A i \in 1..Len(inp.rows) : \A c \in inp.cols : out.rows[i][c] = inp.rows[i][c]

DerivedIffSource(inp, out) ==
    /\ "revenue" \in out.cols <=> "tongdoanhthu" \in inp.cols
    /\ "date_clean" \in out.cols <=> "ngay_tiep_nhan" \in inp.cols

\* C6 as stated: for every input table, zero rows included, the result has
\* 'revenue' iff the input has 'tongdoanhthu' and 'date_clean' iff the input
\* has 'ngay_tiep_nhan', and every column of the input is passed through.
C6_AsStated ==
    LoadedUpload =>
        /\ DerivedIffSource(InputTable, OutputTable)
        /\ PassedThrough(InputTable, OutputTable)

\* C6 amended: for every input table with at least one row (and columns among
\* the expected ones) the result has 'revenue' iff the input has
\* 'tongdoanhthu' and 'date_clean' iff it has 'ngay_tiep_nhan', the input's
\* columns passed through; a table with zero rows is returned as it is, with
\* neither derived column.
C6_DerivedColumns ==
    LoadedUpload =>
        IF Len(InputTable.rows) > 0
        THEN DerivedIffSource(InputTable, OutputTable)
             /\ PassedThrough(InputTable, OutputTable)
        ELSE OutputTable = InputTable

\* a table with a revenue column and no date column was cleaned
C6_Witness ==
    /\ LoadedUpload
    /\ Len(InputTable.rows) > 0
    /\ InputTable.cols = {"nam", "tongdoanhthu"}
    /\ OutputTable.cols = {"nam", "tongdoanhthu", "revenue"}

\* C1: no pass ends in an uncaught exception, whatever expected column the
\* table lacks.
C1_NoUncaughtException == page # "exception"

\* the last pass ran on the uploaded CSV
RanOnUpload == LoadedUpload /\ df # Missing /\ df_source = "load_data"

Drawn == {"kpi_total_revenue", "kpi_average_revenue", "kpi_total_visits",
          "kpi_top_group", "chart_line", "chart_bar", "chart_pie",
          "chart_sunburst", "data_table", "sample_table"}

\* C2 as stated: for any CSV without a 'nam' column, zero data rows included,
\* the pass reports the missing-year-column error and stops before any KPI
\* card, chart or table.
C2_AsStated ==
    (RanOnUpload /\ "nam" \notin InputTable.cols) =>
        page = "error_no_year_column" /\ rendered \cap Drawn = {}

\* C2 amended: for any CSV without a 'nam' column and with at least one data
\* row the pass reports the missing-year-column error and stops before any
\* KPI card, chart or table; with zero data rows the pass shows the welcome
\* page with its sample table, reports no missing-year-column error, and draws
\* no KPI card or chart.
C2_MissingYearColumn ==
    (RanOnUpload /\ "nam" \notin InputTable.cols) =>
        IF Len(InputTable.rows) > 0
        THEN page = "error_no_year_column" /\ rendered \cap Drawn = {}
        ELSE page = "welcome" /\ rendered = {"sample_table"}

\* a CSV with rows and no 'nam' column was stopped at the year check
C2_Witness ==
    /\ RanOnUpload
    /\ "nam" \notin InputTable.cols
    /\ "thang" \in InputTable.cols
    /\ Len(InputTable.rows) > 0
    /\ page = "error_no_year_column"

\* the last pass got through the filter stage (lines 228-231)
Filtered == page \in {"warning_empty", "dashboard"}

\* the rows of d at the positions idx, in order
Subsequence(d, idx) ==
    LET pos == SortedSeq(idx)
    IN  [k \in 1..Len(pos) |-> d.rows[pos[k]]]

\* rows of the selected year, of any group or of the selected one
ExactView ==
    LET d == df[1]
        y == selected_year[1]
        s == selected_service[1]
    IN  df_filtered[1].rows =
            Subsequence(d, {i \in 1..Len(d.rows) :
                /\ d.rows[i]["nam"] = Some(y)
                /\ s = ALL \/ d.rows[i]["tennhomdichvu"] = Some(s)})

\* every row of the view is of the selected group
OnlySelectedGroup ==
    \A i \in 1..Len(df_filtered[1].rows) :
        df_filtered[1].rows[i]["tennhomdichvu"] = selected_service

\* C3 as stated: the view is the rows of year y when s is the sentinel and the
\* rows of year y and group s otherwise, so that any group name that occurs in
\* the data gives only that group's rows.
C3_AsStated ==
    Filtered =>
        /\ ExactView
        /\ selected_service[1] \in UniqueValues(df[1], "tennhomdichvu")
              => OnlySelectedGroup

\* C3 amended: the view is the rows of year y when s is the sentinel and the
\* rows of year y and group s otherwise; the sentinel gives the same view as
\* no group filter, and any group name that occurs in the data and is not the
\* sentinel's own text gives only that group's rows.
C3_FilteredView ==
    Filtered =>
        /\ ExactView
        /\ selected_service[1] = ALL
              => df_filtered[1] = FilterYear(df[1], selected_year[1])
        /\ (selected_service[1] # ALL
            /\ selected_service[1] \in UniqueValues(df[1], "tennhomdichvu"))
              => OnlySelectedGroup

\* a group was selected and the view dropped a row of the year for it
C3_Witness ==
    /\ page = "dashboard"
    /\ selected_service = Some("Xet nghiem")
    /\ Len(df_filtered[1].rows) = 1
    /\ Len(FilterYear(df[1], selected_year[1]).rows) = 2

\* C4: whenever the filtered view has zero rows the pass shows the
\* empty-result warning and stops, with no KPI card, chart or table drawn.
C4_EmptyResultStops ==
    (df_filtered # Missing /\ Len(df_filtered[1].rows) = 0) =>
        page = "warning_empty" /\ rendered = {}

\* a year and a group with no common row were selected
C4_Witness ==
    /\ page = "warning_empty"
    /\ selected_service # Missing
    /\ selected_service # Some(ALL)
    /\ Len(df_filtered[1].rows) = 0
    /\ Len(df[1].rows) > 0

C8_ParsedOnce ==
    /\ \A k \in Keys : parses[k] <= 1
    /\ loaded # Missing =>
          first[uploaded_file] # Missing /\ loaded = first[uploaded_file]
    /\ cache_hit => parses[uploaded_file] = 1

\* a later pass with the same file was served from the cache
C8_Witness ==
    /\ cache_hit
    /\ uploaded_file = "data.csv"
    /\ parses["data.csv"] = 1
    /\ page = "dashboard"

\* the button is offered only while a table is stored; pressing it clears the
\* stored table and asks for a re-run
ResetClears ==
    /\ reset_offered => session_df # Missing
    /\ rerun_pending => session_df = Missing /\ page = "rerun"
    /\ (rerun_pending \/ after_reset) => prev_session # Missing

\* the re-run renders what load_data returns for the uploader's contents
RerunRendersLoaded ==
    after_reset =>
        /\ loaded # Missing
        /\ loaded[1] = load_data(uploaded_file)
        /\ df = Some(loaded[1].df)
        /\ df_source = "load_data"

\* C9 as stated: ... and in that re-run the table rendered is the one load_data
\* returns for the uploader's contents, never the table stored before the
\* reset.
C9_AsStated ==
    /\ ResetClears
    /\ RerunRendersLoaded
    /\ after_reset => df # prev_session

\* C9 amended: the reset button is offered only while a session table is
\* stored; pressing it sets the stored table to absent and triggers a re-run,
\* and in that re-run the table rendered is the one load_data returns for the
\* uploader's contents and is not read from the session store; when the
\* uploader still holds the file the stored table came from, that is the same
\* table again.
C9_ResetRerun == ResetClears /\ RerunRendersLoaded

\* after a reset with the file still in the uploader the same table is shown
C9_Witness ==
    /\ after_reset
    /\ uploaded_file = "data.csv"
    /\ df = prev_session
    /\ page = "dashboard"

\* C10: the stored session table is absent or a non-empty table load_data
\* produced from an uploaded file, never the local file's table; and a pass
\* with an empty uploader and a stored table renders the stored table.
C10_SessionTable ==
    /\ session_df # Missing =>
          /\ ~IsEmpty(session_df[1])
          /\ \E f \in FileNames :
                /\ content[f].kind = "csv"
                /\ session_df[1] = process_data(content[f].table[1])
          /\ local.kind = "csv" => session_df[1] # process_data(local.table[1])
    /\ (df # Missing /\ uploaded_file = None /\ session_df # Missing) =>
          df = session_df /\ df_source = "session"

\* the upload was removed and its table is still displayed
C10_Witness ==
    /\ uploaded_file = None
    /\ session_df # Missing
    /\ df = session_df
    /\ page = "dashboard"
    /\ local.kind = "csv"

====
